---- MODULE Spec2Model ----
(***************************************************************************)
(* WhatsApp message ingestion and contact reconciliation of the personal   *)
(* CRM (server/src/services/whatsapp-web.ts, server/src/utils/phone.ts).   *)
(*                                                                         *)
(* A JavaScript string is a sequence of tokens.  Strings that the code     *)
(* inspects character by character (phones, chat ids) have one token per   *)
(* character; fixed literals that are only concatenated ("Nuevo - ") are   *)
(* one token.  null / undefined is the one-token sequence Null.            *)
(***************************************************************************)
EXTENDS Integers, Sequences, FiniteSets, TLC

\* ------------------------------------------------------------------------
\* Strings
\* ------------------------------------------------------------------------
Null == <<"<null>">>

Empty == <<>>

\* JavaScript truthiness of a string-or-null value
Truthy(s) == s # Null /\ s # Empty

\* a || b
OrElse(a, b) == IF Truthy(a) THEN a ELSE b

Digits == {"0", "1", "2", "3", "4", "5", "6", "7", "8", "9"}

\* s.replace(/[^0-9]/g, '')
IsDigit(c) == c \in Digits

StripNonDigits(s) == SelectSeq(s, IsDigit)

\* s.startsWith(p)
StartsWith(s, p) == Len(s) >= Len(p) /\ SubSeq(s, 1, Len(p)) = p

\* s.endsWith(p)
EndsWith(s, p) == Len(s) >= Len(p) /\ SubSeq(s, Len(s) - Len(p) + 1, Len(s)) = p

\* s.includes(p)
Includes(s, p) ==
  \E i \in 1..(Len(s) - Len(p) + 1) : SubSeq(s, i, i + Len(p) - 1) = p

\* s.replace(/p$/, '')
StripSuffix(s, p) == IF EndsWith(s, p) THEN SubSeq(s, 1, Len(s) - Len(p)) ELSE s

\* s.slice(-n)
LastN(s, n) == IF Len(s) <= n THEN s ELSE SubSeq(s, Len(s) - n + 1, Len(s))

\* s.substring(n)
DropN(s, n) == SubSeq(s, n + 1, Len(s))

\* arr.includes(x)
SeqIncludes(arr, x) == \E i \in DOMAIN arr : arr[i] = x

\* [...new Set(arr)] : first occurrences, in order
RECURSIVE Dedupe(_)
Dedupe(arr) ==
  IF arr = <<>> THEN <<>>
  ELSE LET init == Dedupe(SubSeq(arr, 1, Len(arr) - 1))
           last == arr[Len(arr)]
       IN IF SeqIncludes(init, last) THEN init ELSE Append(init, last)

Plus == <<"+">>
CC52 == <<"5", "2">>
CC521 == <<"5", "2", "1">>
AtCUs == <<"@", "c", ".", "u", "s">>
AtLid == <<"@", "l", "i", "d">>
AtGUs == <<"@", "g", ".", "u", "s">>
StatusBroadcast == <<"s", "t", "a", "t", "u", "s", "@", "b", "r", "o", "a", "d", "c", "a", "s", "t">>

\* ------------------------------------------------------------------------
\* utils/phone.ts
\* ------------------------------------------------------------------------
LocalLen == 10
LegacyLen == 13
CanonicalLen == 12
IntlMinLen == 11

\* (variant: every number is taken as a local one and given the country code)
normalizePhoneAlwaysLocal(phone) ==
  IF ~Truthy(phone) \/ phone = <<"-">> THEN Null
  ELSE LET cleaned == StripNonDigits(phone)
       IN IF cleaned = Empty \/ Len(cleaned) < LocalLen THEN Null
          ELSE Plus \o CC52 \o cleaned

\* (variant: the historical 521 form is not collapsed)
normalizePhoneKeepLegacy(phone) ==
  IF ~Truthy(phone) \/ phone = <<"-">> THEN Null
  ELSE LET cleaned == StripNonDigits(phone)
       IN IF cleaned = Empty \/ Len(cleaned) < LocalLen THEN Null
          ELSE IF Len(cleaned) = LocalLen THEN Plus \o CC52 \o cleaned
          ELSE Plus \o cleaned

normalizePhoneToCanonical(phone) ==
  IF ~Truthy(phone) \/ phone = <<"-">> THEN Null
  ELSE LET cleaned == StripNonDigits(phone)
       IN IF cleaned = Empty \/ Len(cleaned) < LocalLen THEN Null
          ELSE IF Len(cleaned) = LocalLen THEN Plus \o CC52 \o cleaned
          ELSE IF StartsWith(cleaned, CC521) /\ Len(cleaned) = LegacyLen
            THEN Plus \o CC52 \o DropN(cleaned, 3)
          ELSE IF StartsWith(cleaned, CC52) /\ Len(cleaned) = CanonicalLen
            THEN Plus \o cleaned
          ELSE IF Len(cleaned) >= IntlMinLen THEN Plus \o cleaned
          ELSE Null

\* (variant: the historical 521 forms are not searched)
getPhoneVariantsNoLegacy(phone) ==
  LET cleaned == StripNonDigits(phone)
  IN IF cleaned = Empty \/ Len(cleaned) < LocalLen THEN <<>>
     ELSE LET last10 == LastN(cleaned, LocalLen)
          IN Dedupe(<< Plus \o CC52 \o last10, CC52 \o last10, last10, cleaned, Plus \o cleaned >>)

\* (variant: only the five forms built from the last 10 digits)
getPhoneVariantsNoRaw(phone) ==
  LET cleaned == StripNonDigits(phone)
  IN IF cleaned = Empty \/ Len(cleaned) < LocalLen THEN <<>>
     ELSE LET last10 == LastN(cleaned, LocalLen)
          IN Dedupe(<< Plus \o CC52 \o last10, CC52 \o last10, Plus \o CC521 \o last10,
                       CC521 \o last10, last10 >>)

getPhoneVariants(phone) ==
  LET cleaned == StripNonDigits(phone)
  IN IF cleaned = Empty \/ Len(cleaned) < LocalLen THEN <<>>
     ELSE LET last10 == LastN(cleaned, LocalLen)
              v5 == << Plus \o CC52 \o last10,
                       CC52 \o last10,
                       Plus \o CC521 \o last10,
                       CC521 \o last10,
                       last10 >>
              v6 == IF SeqIncludes(v5, cleaned) THEN v5 ELSE Append(v5, cleaned)
              v7 == IF SeqIncludes(v6, Plus \o cleaned) THEN v6
                    ELSE Append(v6, Plus \o cleaned)
          IN Dedupe(v7)

phonesMatch(phone1, phone2) ==
  IF ~Truthy(phone1) \/ ~Truthy(phone2) THEN FALSE
  ELSE LET norm1 == normalizePhoneToCanonical(phone1)
           norm2 == normalizePhoneToCanonical(phone2)
       IN norm1 # Null /\ norm1 = norm2

\* ------------------------------------------------------------------------
\* Inputs: what the transport and the store hand to the handlers
\* ------------------------------------------------------------------------
MaxMsgs == 2
MaxFaults == 1

Local10 == <<"5", "5", "1", "2", "3", "4", "5", "6", "7", "8">>
\* a local number that itself begins with 521
OtherLocal == <<"5", "2", "1", "9", "8", "7", "6", "5", "4", "3">>
Phone521 == CC521 \o Local10
Phone52 == CC52 \o Local10
\* the linked-device id of the comment at whatsapp-web.ts:291
LidUser == <<"2", "8", "0", "3", "5", "8", "6", "2", "0", "7", "7", "4", "5", "8", "6">>
GroupUser == <<"1", "2", "0", "3", "6", "3", "0", "2", "5", "2", "4", "6", "1", "2", "5", "4", "8", "6">>
OldGroupUser == Local10 \o <<"-", "1">>
ShortUser == <<"1", "2", "3", "4", "5">>

\* message.from (inbound) / message.to (outbound)
Remotes ==
  { Phone521 \o AtCUs, Phone52 \o AtCUs, ShortUser \o AtCUs, LidUser \o AtLid,
    GroupUser \o AtGUs, OldGroupUser \o AtGUs, StatusBroadcast }

IsOneToOne(remote) == EndsWith(remote, AtCUs) \/ EndsWith(remote, AtLid)

\* contact.number values the transport can report for a chat id: the id's own
\* user part for a phone chat, the real phone behind a linked-device id, the
\* author of a group message; Null when it reports no contact or no number
NumbersFor(remote) ==
  IF EndsWith(remote, AtCUs) THEN {StripSuffix(remote, AtCUs), Null}
  ELSE IF remote = StatusBroadcast THEN {Null}
  ELSE {Phone521, Null}

\* (name, pushname) of a transport contact
NamePairs == { <<<<"Ana">>, <<"Bo">>>>, <<Empty, <<"Bo">>>>, <<Empty, Empty>> }

\* chat.name
ChatNames == { <<"Caro">>, Empty }

\* the messages the transport can produce: every chat id in both directions,
\* as a text message or (one chat per direction) as a media message without text
Text == [hasMedia |-> FALSE, body |-> <<"hola">>]
MediaOnly == [hasMedia |-> TRUE, body |-> Empty]
PayloadFor(fromMe, remote) ==
  IF (~fromMe /\ remote = Phone52 \o AtCUs) \/ (fromMe /\ remote = Phone521 \o AtCUs)
  THEN MediaOnly ELSE Text
MessagePool ==
  { [fromMe |-> f, remote |-> r, hasMedia |-> PayloadFor(f, r).hasMedia,
     body |-> PayloadFor(f, r).body] : f \in BOOLEAN, r \in Remotes }

\* what downloadMedia() resolves to: a media object, or undefined
MimeJpeg == <<"image", "/", "jpeg">>
MimeZip == <<"application", "/", "zip">>
Medias == { [data |-> TRUE, mimetype |-> MimeJpeg], [data |-> TRUE, mimetype |-> MimeZip],
            [data |-> FALSE, mimetype |-> MimeJpeg] }

\* Date.now()
Times == { <<"1700000000000">> }

\* routes/google-sheets.ts normalizePhone: the sheet import's own normalizer
sheetNormalizePhone(phone) ==
  IF ~Truthy(phone) \/ phone = <<"-">> THEN Null
  ELSE LET kept == SelectSeq(phone, LAMBDA c : IsDigit(c) \/ c = "+")
           hasPlus == StartsWith(kept, Plus)
           cleaned == IF hasPlus THEN DropN(kept, 1) ELSE kept
       IN IF kept = Empty THEN Null
          ELSE IF Len(cleaned) = LocalLen THEN Plus \o CC52 \o cleaned
          ELSE IF Len(cleaned) = CanonicalLen /\ StartsWith(cleaned, CC52) THEN Plus \o cleaned
          ELSE IF Len(cleaned) >= IntlMinLen THEN Plus \o cleaned
          ELSE IF hasPlus THEN Plus \o cleaned ELSE cleaned

\* phones already in the contacts table when the session starts: stored by
\* POST /contacts (routes/contacts.ts:43) or by the sheet import, which keeps
\* the historical +521 form
StoredCanonical == normalizePhoneToCanonical(Local10)
StoredLegacy == sheetNormalizePhone(Phone521)
InitialPhones == { <<>>, <<StoredLegacy>>, <<StoredLegacy, StoredCanonical>> }

\* ------------------------------------------------------------------------
\* State
\* ------------------------------------------------------------------------
VARIABLES
  contacts,       \* contacts table, rows in insertion order
  conversations,  \* conversations table
  opportunities,  \* opportunities table
  mediaStore,     \* file names written under UPLOADS_DIR
  msgs,           \* logical messages the transport has produced
  runs,           \* handler invocations: event <<message, kind>> -> locals
  faults,         \* store / transport calls that have thrown so far
  updates         \* history: <<contact id, event>> of every lastContactDate update

\* services/whatsapp-web.ts module state (lines 29-32), the transport sessions
\* constructed so far and the API calls in flight
VARIABLES
  client,         \* let client: index of the session object held, NoClient for null
  isReady,        \* let isReady
  qrCodeData,     \* let qrCodeData: a data URL or Null
  clientInfo,     \* let clientInfo: the info object of a session, or Null
  sessions,       \* the Client objects constructed, in construction order
  calls,          \* invocations of the exported functions and of the qr listener
  initCalls       \* history: number of initWhatsAppClient() calls

\* what the listeners and the session functions never touch, except that an
\* insert into contacts draws its id from the sequence
VARIABLES
  tasks,          \* tasks table
  sqliteSequence, \* sqlite_sequence of contacts (id ... AUTOINCREMENT): last id given
  probe           \* a function of utils/phone.ts or the media path applied to
                  \* drawn arguments: the arguments and the values returned

tables == <<contacts, conversations, opportunities, mediaStore>>
session == <<client, isReady, qrCodeData, clientInfo, sessions, calls, initCalls>>
rest == <<tasks, sqliteSequence, probe>>
vars == <<contacts, conversations, opportunities, mediaStore, msgs, runs, faults, updates,
          client, isReady, qrCodeData, clientInfo, sessions, calls, initCalls,
          tasks, sqliteSequence, probe>>

Kinds == {"message", "message_create"}
\* mediaData = null
NoMedia == [mediaType |-> Null, mediaUrl |-> Null]
NoEvent == <<0, "crm">>

\* a handler invocation's locals before its first statement, and its history:
\*   at        where the outer catch caught an exception
\*   number    the number the contact accessor reported
\*   resolved  the phone string has been resolved
\*   snapshot  how many contacts existed when findContactByPhone was called
\*   missed    every select of findContactByPhone came back empty
\*   names     the names the transport reported (name, pushname / chat name)
NewRun ==
  [ pc |-> "start", outcome |-> "running", phone |-> Empty, waContact |-> FALSE,
    chatObj |-> FALSE, chatUser |-> Empty, mediaData |-> NoMedia,
    content |-> Empty, variants |-> <<>>, vi |-> 0, contactId |-> 0,
    created |-> FALSE, contactName |-> Empty,
    at |-> "", number |-> Null, resolved |-> FALSE, snapshot |-> 0, missed |-> FALSE,
    names |-> <<Empty, Empty>> ]

\* client = null; clientInfo = null (or undefined)
NoClient == 0
NoInfo == [user |-> Null, pushname |-> Null]

\* new Client({...}) with the listeners of lines 109-431 registered on it; the
\* status is the transport's own: initializing, pairing (a qr code is shown),
\* ready, authFailed, loggedOut (logout() done), closed (it has disconnected)
NewClient == [status |-> "initializing", handlers |-> 1, qrs |-> 0]

\* client.info once the session is ready: wid.user and pushname
OwnNumber == CC52 \o <<"1", "5", "5", "5", "0", "0", "0", "0", "0", "1">>
InfoOf(s) == [user |-> OwnNumber, pushname |-> <<"CRM", ToString(s)>>]

\* no function under probe
NoProbe == [fn |-> "none"]

\* the tables before any event
TablesInit ==
  /\ \E ps \in InitialPhones :
       /\ contacts = [ i \in 1..Len(ps) |->
                      [ id |-> i, name |-> <<"Stored">>, phone |-> ps[i],
                        category |-> "cliente", lastContactDate |-> NoEvent, ev |-> NoEvent ] ]
       /\ sqliteSequence = Len(ps)
  /\ tasks = <<>>
  /\ conversations = <<>>
  /\ opportunities = <<>>
  /\ mediaStore = {}
  /\ msgs = <<>>
  /\ runs = <<>>
  /\ faults = 0
  /\ updates = {}

StoreInit == TablesInit /\ probe = NoProbe

\* the server has started (index.ts:63 calls initWhatsAppClient) and the
\* session has been paired: the state in which message events arrive
Paired ==
  /\ client = 1
  /\ isReady = TRUE
  /\ qrCodeData = Null
  /\ clientInfo = InfoOf(1)
  /\ sessions = << [NewClient EXCEPT !.status = "ready"] >>
  /\ calls = <<>>
  /\ initCalls = 1

Init == StoreInit /\ Paired

Started(e) == e \in DOMAIN runs

\* (variant: every record is written as an incoming one)
DirectionAlwaysEntrante(e) == "entrante"

\* direction: 'entrante' in client.on('message'), 'saliente' in client.on('message_create')
Direction(e) == IF e[2] = "message" THEN "entrante" ELSE "saliente"
Remote(e) == msgs[e[1]].remote

\* message.id._serialized
MessageId(m) ==
  <<IF msgs[m].fromMe THEN "true" ELSE "false", "_">> \o msgs[m].remote \o <<"_", "3EB0", ToString(m)>>

Done(run, outcome) == [run EXCEPT !.pc = "done", !.outcome = outcome]

\* ------------------------------------------------------------------------
\* services/whatsapp-web.ts: pieces of the two handlers
\* ------------------------------------------------------------------------
MinDigits == 10
MaxDigits == 15

\* client.on('message'): if (message.fromMe) return
InboundSkips(fromMe) == fromMe

\* (variant: the message_create handler skips nothing)
OutboundSkipsNothing(fromMe) == FALSE

\* client.on('message_create'): if (!message.fromMe) return
OutboundSkips(fromMe) == ~fromMe

\* (variant: the gate has no lower limit)
IsValidPhoneNoMinimum(cleanedPhone) ==
  ~(cleanedPhone = Empty \/ Len(cleanedPhone) > MaxDigits)

\* the validation gate: !(!cleanedPhone || length < 10 || length > 15)
IsValidPhone(cleanedPhone) ==
  ~(cleanedPhone = Empty \/ Len(cleanedPhone) < MinDigits \/ Len(cleanedPhone) > MaxDigits)

\* phone.includes('@g.us')
IsGroupPhone(phone) == Includes(phone, AtGUs)

\* inbound: waContact?.number || '', then the fallback on message.from
InboundPhone(number, from) ==
  LET phone == OrElse(number, Empty)
  IN IF ~Truthy(phone) THEN StripSuffix(StripSuffix(from, AtCUs), AtLid) ELSE phone

\* (variant: the chat id is preferred to the chat contact's number)
LidPhoneChatUserFirst(number, chatUser) == OrElse(chatUser, OrElse(number, Empty))

\* outbound, @lid: chatContact?.number || chatObj?.id?.user || ''
LidPhone(number, chatUser) == OrElse(number, OrElse(chatUser, Empty))

\* outbound, no @lid: message.to.replace(/@c\.us$/, '')
OutboundPhone(to) == StripSuffix(to, AtCUs)

\* (variant: no placeholder when there is neither text nor media)
ContentNoPlaceholder(body, mediaData) ==
  OrElse(body, IF mediaData # NoMedia THEN <<"[">> \o mediaData.mediaType \o <<"]">>
               ELSE Empty)

\* message.body || (mediaData ? '[' + mediaData.mediaType + ']' : '[mensaje sin contenido]')
Content(body, mediaData) ==
  OrElse(body, IF mediaData # NoMedia THEN <<"[">> \o mediaData.mediaType \o <<"]">>
               ELSE <<"[mensaje sin contenido]">>)

\* waContact?.name || waContact?.pushname || null
WaName(name, pushname) == OrElse(name, OrElse(pushname, Null))

\* waName || "Nuevo - " + phone   (recipientName || ... on the outbound side)
ContactName(hint, phone) == OrElse(hint, <<"Nuevo - ">> \o phone)

\* (variant: the phone is stored as resolved, not canonicalized)
ContactValuesRawPhone(id, contactName, phone, e) ==
  [ id |-> id, name |-> contactName, phone |-> phone,
    category |-> "prospecto", lastContactDate |-> NoEvent, ev |-> e ]

\* db.insert(contacts).values({...})
ContactValues(id, contactName, phone, e) ==
  [ id |-> id, name |-> contactName, phone |-> normalizePhoneToCanonical(phone),
    category |-> "prospecto", lastContactDate |-> NoEvent, ev |-> e ]

\* db.insert(conversations).values({...})
ConversationValues(contactId, content, direction, mediaData, e) ==
  [ contactId |-> contactId, content |-> content, direction |-> direction,
    mediaType |-> mediaData.mediaType, mediaUrl |-> mediaData.mediaUrl, ev |-> e ]

\* db.insert(opportunities).values({...})
OpportunityValues(contactId, contactName, e) ==
  [ contactId |-> contactId, title |-> <<"WhatsApp - ">> \o contactName, value |-> 0,
    stage |-> "Lead", ev |-> e ]

\* saveMediaFile: the file written (Null when nothing is written) and the result
\* messageId.replace(/[^a-zA-Z0-9]/g, '_'): every token of the model's strings
\* is alphanumeric except the punctuation below
Punct == {"@", ".", "_", "-", "+", "/", " ", ";", "="}
Sanitize(s) == [ i \in DOMAIN s |-> IF s[i] \in Punct THEN "_" ELSE s[i] ]

MimeTable ==
  { <<MimeJpeg, <<"jpg">>>>,
    <<<<"image", "/", "png">>, <<"png">>>>,
    <<<<"image", "/", "gif">>, <<"gif">>>>,
    <<<<"image", "/", "webp">>, <<"webp">>>>,
    <<<<"audio", "/", "ogg", ";", " ", "codecs", "=", "opus">>, <<"ogg">>>>,
    <<<<"audio", "/", "mpeg">>, <<"mp3">>>>,
    <<<<"audio", "/", "mp4">>, <<"m4a">>>>,
    <<<<"video", "/", "mp4">>, <<"mp4">>>>,
    <<<<"application", "/", "pdf">>, <<"pdf">>>> }

\* mimeToExt[media.mimetype] || media.mimetype.split('/')[1] || 'bin'
mimeToExt(mimetype) ==
  IF \E row \in MimeTable : row[1] = mimetype
  THEN (CHOOSE row \in MimeTable : row[1] = mimetype)[2]
  ELSE IF Len(mimetype) >= 3 /\ Truthy(SubSeq(mimetype, 3, Len(mimetype)))
    THEN SubSeq(mimetype, 3, Len(mimetype))
  ELSE <<"bin">>

MediaKind(mimetype) ==
  IF StartsWith(mimetype, <<"image", "/">>) THEN <<"image">>
  ELSE IF StartsWith(mimetype, <<"audio", "/">>) THEN <<"audio">>
  ELSE IF StartsWith(mimetype, <<"video", "/">>) THEN <<"video">>
  ELSE <<"document">>

saveMediaFile(media, messageId, timestamp, writeOk) ==
  LET filename == timestamp \o <<"_">> \o Sanitize(messageId) \o <<".">> \o mimeToExt(media.mimetype)
  IN IF ~media.data THEN [file |-> Null, result |-> NoMedia]
     ELSE IF ~writeOk THEN [file |-> Null, result |-> NoMedia]
     ELSE [ file |-> filename,
            result |-> [mediaType |-> MediaKind(media.mimetype),
                        mediaUrl |-> <<"/api/media/">> \o filename] ]

\* db.select().from(contacts).where(eq(contacts.phone, variant)).get():
\* the id of the first row with that phone, 0 when there is none
SelectByPhone(variant) ==
  IF \E i \in DOMAIN contacts : contacts[i].phone = variant
  THEN contacts[CHOOSE i \in DOMAIN contacts :
                  /\ contacts[i].phone = variant
                  /\ \A j \in DOMAIN contacts : contacts[j].phone = variant => i <= j].id
  ELSE 0


\* ------------------------------------------------------------------------
\* The handlers, one action per stretch of code between two awaits.  A store
\* call takes effect in the step in which its await resumes.
\* ------------------------------------------------------------------------
Set(e, run) == runs' = [x \in DOMAIN runs \cup {e} |-> IF x = e THEN run ELSE runs[x]]

\* content is computed and findContactByPhone is called: all variants are
\* computed, the first select is issued
StartLookup(msg, run) ==
  LET variants == getPhoneVariants(run.phone)
      r1 == [run EXCEPT !.content = Content(msg.body, run.mediaData),
                        !.variants = variants, !.snapshot = Len(contacts)]
  IN IF variants = <<>> THEN [r1 EXCEPT !.pc = "notFound"]
     ELSE [r1 EXCEPT !.pc = "select", !.vi = 1]

\* validation gate, group check, media check (lines 170-185 and 326-337)
Resolved(msg, run, phone) ==
  LET r1 == [run EXCEPT !.phone = phone, !.resolved = TRUE]
  IN IF ~IsValidPhone(StripNonDigits(phone)) THEN Done(r1, "skip_invalid_phone")
     ELSE IF IsGroupPhone(phone) THEN Done(r1, "skip_group")
     ELSE IF msg.hasMedia THEN [r1 EXCEPT !.pc = "downloadMedia"]
     ELSE StartLookup(msg, r1)

\* client.on('message') up to await message.getContact()
OnMessage(msg) ==
  IF InboundSkips(msg.fromMe) THEN Done(NewRun, "skip_fromMe")
  ELSE IF msg.remote = StatusBroadcast THEN Done(NewRun, "skip_status")
  ELSE [NewRun EXCEPT !.pc = "getContact"]

\* message.getContact() resolves: phone, gate, group check, media check
GetContactReturns(e) ==
  /\ Started(e) /\ runs[e].pc = "getContact"
  /\ \E number \in NumbersFor(Remote(e)) :
       Set(e, Resolved(msgs[e[1]],
                       [runs[e] EXCEPT !.waContact = (number # Null), !.number = number],
                       InboundPhone(number, Remote(e))))
  /\ UNCHANGED <<tables, msgs, faults, updates, session, rest>>

\* client.on('message_create') up to its first await
OnMessageCreate(msg) ==
  IF OutboundSkips(msg.fromMe) THEN Done(NewRun, "skip_fromMe")
  ELSE IF msg.remote = StatusBroadcast THEN Done(NewRun, "skip_status")
  ELSE IF Includes(msg.remote, AtLid) THEN [NewRun EXCEPT !.pc = "getChat"]
  ELSE Resolved(msg, NewRun, OutboundPhone(msg.remote))

\* the events the transport emits for one message: message_create for every
\* message, message for a received one (and possibly for a sent one)
EmittedKinds(fromMe) == IF fromMe THEN {{"message_create"}, Kinds} ELSE {Kinds}

\* the transport emits the events of a new message; each listener runs
\* synchronously up to its first await
EmitFrom(pool) ==
  /\ Len(msgs) < MaxMsgs
  /\ \E s \in DOMAIN sessions : sessions[s].status = "ready"
  /\ \E msg \in pool : \E kinds \in EmittedKinds(msg.fromMe) :
       LET m == Len(msgs) + 1
       IN /\ msgs' = Append(msgs, msg)
          /\ runs' = [ x \in DOMAIN runs \cup ({m} \X kinds) |->
                       IF x[1] = m
                       THEN IF x[2] = "message" THEN OnMessage(msg) ELSE OnMessageCreate(msg)
                       ELSE runs[x] ]
  /\ UNCHANGED <<tables, faults, updates, session, rest>>

Emit == EmitFrom(MessagePool)

\* message.getChat() resolves or throws (inner catch: return)
GetChatReturns(e) ==
  /\ Started(e) /\ runs[e].pc = "getChat"
  /\ \/ /\ Set(e, [runs[e] EXCEPT !.pc = "chatGetContact", !.chatObj = TRUE,
                                  !.chatUser = StripSuffix(Remote(e), AtLid)])
        /\ UNCHANGED faults
     \/ /\ faults < MaxFaults
        /\ faults' = faults + 1
        /\ Set(e, Done(runs[e], "lid_chat_failed"))
  /\ UNCHANGED <<tables, msgs, updates, session, rest>>

\* chatObj.getContact() resolves or throws (same inner catch)
ChatGetContactReturns(e) ==
  /\ Started(e) /\ runs[e].pc = "chatGetContact"
  /\ \/ /\ \E number \in NumbersFor(Remote(e)) :
             Set(e, Resolved(msgs[e[1]], [runs[e] EXCEPT !.number = number],
                             LidPhone(number, runs[e].chatUser)))
        /\ UNCHANGED faults
     \/ /\ faults < MaxFaults
        /\ faults' = faults + 1
        /\ Set(e, Done(runs[e], "lid_chat_failed"))
  /\ UNCHANGED <<tables, msgs, updates, session, rest>>

\* message.downloadMedia() resolves (a media object or undefined) or throws;
\* saveMediaFile writes the file before its own promise is awaited
DownloadMediaReturns(e) ==
  /\ Started(e) /\ runs[e].pc = "downloadMedia"
  /\ \/ /\ Set(e, StartLookup(msgs[e[1]], runs[e]))
        /\ UNCHANGED <<mediaStore, faults>>
     \/ /\ faults < MaxFaults
        /\ faults' = faults + 1
        /\ Set(e, StartLookup(msgs[e[1]], runs[e]))
        /\ UNCHANGED mediaStore
     \/ \E media \in Medias, timestamp \in Times, writeOk \in BOOLEAN :
          LET saved == saveMediaFile(media, MessageId(e[1]), timestamp, writeOk)
          IN /\ writeOk \/ faults < MaxFaults
             /\ faults' = IF writeOk THEN faults ELSE faults + 1
             /\ mediaStore' = IF saved.file = Null THEN mediaStore
                              ELSE mediaStore \cup {saved.file}
             /\ Set(e, [runs[e] EXCEPT !.pc = "saveMediaFile", !.mediaData = saved.result])
  /\ UNCHANGED <<contacts, conversations, opportunities, msgs, updates, session, rest>>

\* await saveMediaFile(...) resumes
SaveMediaFileReturns(e) ==
  /\ Started(e) /\ runs[e].pc = "saveMediaFile"
  /\ Set(e, StartLookup(msgs[e[1]], runs[e]))
  /\ UNCHANGED <<tables, msgs, faults, updates, session, rest>>

\* no contact has any variant: the auto-create branch begins.  Inbound: the
\* name comes from waContact; outbound: from chatObj, fetched first if absent
NotFound(e, run, names, chatName) ==
  IF e[2] = "message"
  THEN LET waName == IF run.waContact THEN WaName(names[1], names[2]) ELSE Null
       IN [run EXCEPT !.pc = "insertContact", !.missed = TRUE,
                      !.names = IF run.waContact THEN names ELSE <<Empty, Empty>>,
                      !.contactName = ContactName(waName, run.phone)]
  ELSE IF ~run.chatObj THEN [run EXCEPT !.pc = "getChatById", !.missed = TRUE]
  ELSE LET recipientName == OrElse(chatName, Null)
       IN [run EXCEPT !.pc = "insertContact", !.missed = TRUE,
                      !.names = <<chatName, Empty>>,
                      !.contactName = ContactName(recipientName, run.phone)]

\* findContactByPhone: one select resumes; hit, next variant, or not found
SelectReturns(e) ==
  /\ Started(e) /\ runs[e].pc \in {"select", "notFound"}
  /\ LET run == runs[e]
         row == IF run.pc = "select" THEN SelectByPhone(run.variants[run.vi]) ELSE 0
     IN IF row # 0
        THEN Set(e, [run EXCEPT !.contactId = row, !.pc = "insertConversation"])
        ELSE IF run.pc = "select" /\ run.vi < Len(run.variants)
        THEN Set(e, [run EXCEPT !.vi = run.vi + 1])
        ELSE \E names \in NamePairs, chatName \in ChatNames :
               Set(e, NotFound(e, run, names, chatName))
  /\ UNCHANGED <<tables, msgs, faults, updates, session, rest>>

\* client?.getChatById(message.to) resolves or throws (inner catch: no name)
GetChatByIdReturns(e) ==
  /\ Started(e) /\ runs[e].pc = "getChatById"
  /\ \/ /\ \E chatName \in ChatNames :
             Set(e, NotFound(e, [runs[e] EXCEPT !.chatObj = TRUE], <<>>, chatName))
        /\ UNCHANGED faults
     \/ /\ faults < MaxFaults
        /\ faults' = faults + 1
        /\ Set(e, [runs[e] EXCEPT !.pc = "insertContact",
                                  !.contactName = ContactName(Null, runs[e].phone)])
  /\ UNCHANGED <<tables, msgs, updates, session, rest>>

\* db.insert(contacts)...returning() resumes; newContact[0] is the new row
InsertContactReturns(e) ==
  /\ Started(e) /\ runs[e].pc = "insertContact"
  /\ LET id == sqliteSequence + 1
     IN /\ contacts' = Append(contacts, ContactValues(id, runs[e].contactName, runs[e].phone, e))
        /\ sqliteSequence' = id
        /\ Set(e, [runs[e] EXCEPT !.contactId = id, !.created = TRUE,
                                  !.pc = "insertConversation"])
  /\ UNCHANGED <<conversations, opportunities, mediaStore, msgs, faults, updates, session,
                 tasks, probe>>

\* pc after the conversation insert: the update (existing contact, and the
\* inbound auto-create branch) or the opportunity (outbound auto-create branch)
AfterConversation(kind, created) ==
  IF created /\ kind = "message_create" THEN "insertOpportunity" ELSE "updateContact"

\* db.insert(conversations) resumes
InsertConversationReturns(e) ==
  /\ Started(e) /\ runs[e].pc = "insertConversation"
  /\ conversations' = Append(conversations,
       ConversationValues(runs[e].contactId, runs[e].content, Direction(e), runs[e].mediaData, e))
  /\ Set(e, [runs[e] EXCEPT !.pc = AfterConversation(e[2], runs[e].created)])
  /\ UNCHANGED <<contacts, opportunities, mediaStore, msgs, faults, updates, session, rest>>

\* db.update(contacts).set({lastContactDate}).where(eq(contacts.id, id)) resumes
UpdateContactReturns(e) ==
  /\ Started(e) /\ runs[e].pc = "updateContact"
  /\ contacts' = [ i \in DOMAIN contacts |->
                   IF contacts[i].id = runs[e].contactId
                   THEN [contacts[i] EXCEPT !.lastContactDate = e] ELSE contacts[i] ]
  /\ updates' = updates \cup {<<runs[e].contactId, e>>}
  /\ Set(e, IF runs[e].created THEN [runs[e] EXCEPT !.pc = "insertOpportunity"]
            ELSE Done(runs[e], "saved"))
  /\ UNCHANGED <<conversations, opportunities, mediaStore, msgs, faults, session, rest>>

\* db.insert(opportunities) resumes
InsertOpportunityReturns(e) ==
  /\ Started(e) /\ runs[e].pc = "insertOpportunity"
  /\ opportunities' = Append(opportunities,
       OpportunityValues(runs[e].contactId, runs[e].contactName, e))
  /\ Set(e, Done(runs[e], "created"))
  /\ UNCHANGED <<contacts, conversations, mediaStore, msgs, faults, updates, session, rest>>

\* an awaited call rejects and the handler's outer catch logs it
ThrowingPcs ==
  {"getContact", "select", "insertContact", "insertConversation", "updateContact",
   "insertOpportunity"}

\* (variant: the exception is not caught and takes the session down)
ThrowsUncaught(e) ==
  /\ Started(e) /\ runs[e].pc \in ThrowingPcs
  /\ faults < MaxFaults
  /\ faults' = faults + 1
  /\ Set(e, Done([runs[e] EXCEPT !.at = runs[e].pc], "error"))
  /\ client' = NoClient /\ isReady' = FALSE
  /\ UNCHANGED <<tables, rest, msgs, updates, qrCodeData, clientInfo, sessions, calls, initCalls>>

Throws(e) ==
  /\ Started(e) /\ runs[e].pc \in ThrowingPcs
  /\ faults < MaxFaults
  /\ faults' = faults + 1
  /\ Set(e, Done([runs[e] EXCEPT !.at = runs[e].pc], "error"))
  /\ UNCHANGED <<tables, msgs, updates, session, rest>>

Events == (1..Len(msgs)) \X Kinds

Next ==
  \/ Emit
  \/ \E e \in Events : GetContactReturns(e)
  \/ \E e \in Events : GetChatReturns(e)
  \/ \E e \in Events : ChatGetContactReturns(e)
  \/ \E e \in Events : DownloadMediaReturns(e)
  \/ \E e \in Events : SaveMediaFileReturns(e)
  \/ \E e \in Events : SelectReturns(e)
  \/ \E e \in Events : GetChatByIdReturns(e)
  \/ \E e \in Events : InsertContactReturns(e)
  \/ \E e \in Events : InsertConversationReturns(e)
  \/ \E e \in Events : UpdateContactReturns(e)
  \/ \E e \in Events : InsertOpportunityReturns(e)
  \/ \E e \in Events : Throws(e)

Spec == Init /\ [][Next]_vars

\* ------------------------------------------------------------------------
\* services/whatsapp-web.ts: the session singleton.  The transport is the
\* whatsapp-web.js Client: what it emits, and when, is its own choice.
\* ------------------------------------------------------------------------
MaxSessions == 3
MaxInits == 3
MaxCalls == 2
MaxQr == 1
MaxSent == 1

\* the data URL QRCode.toDataURL resolves to
QrDataUrl == <<"data:image/png;base64,", "qr">>

\* a session object the transport still runs
Live(s) == sessions[s].status \notin {"loggedOut", "closed"}

SetStatus(s, status) == sessions' = [sessions EXCEPT ![s].status = status]

\* (variant: a new session is constructed whether or not one exists)
InitAlways ==
  /\ initCalls < MaxInits /\ Len(sessions) < MaxSessions
  /\ initCalls' = initCalls + 1
  /\ sessions' = Append(sessions, NewClient)
  /\ client' = Len(sessions) + 1
  /\ UNCHANGED <<tables, rest, msgs, runs, faults, updates, isReady, qrCodeData, clientInfo, calls>>

\* initWhatsAppClient(): returns at once when client is set; otherwise
\* constructs the Client, registers the listeners and starts it
initWhatsAppClient ==
  /\ initCalls < MaxInits
  /\ initCalls' = initCalls + 1
  /\ IF client # NoClient THEN UNCHANGED <<client, sessions>>
     ELSE /\ Len(sessions) < MaxSessions
          /\ sessions' = Append(sessions, NewClient)
          /\ client' = Len(sessions) + 1
  /\ UNCHANGED <<tables, rest, msgs, runs, faults, updates, isReady, qrCodeData, clientInfo, calls>>

\* client.on('qr'): the listener suspends in await QRCode.toDataURL(qr)
OnQr(s) ==
  /\ sessions[s].status \in {"initializing", "pairing"}
  /\ sessions[s].qrs < MaxQr
  /\ sessions' = [sessions EXCEPT ![s].status = "pairing", ![s].qrs = @ + 1]
  /\ UNCHANGED <<tables, rest, msgs, runs, faults, updates, client, isReady, qrCodeData,
                 clientInfo, calls, initCalls>>

\* ... and resumes: qrCodeData = <data URL>; isReady = false
QrEncoded(s) ==
  /\ sessions[s].qrs > 0
  /\ sessions' = [sessions EXCEPT ![s].qrs = @ - 1]
  /\ qrCodeData' = QrDataUrl
  /\ isReady' = FALSE
  /\ UNCHANGED <<tables, rest, msgs, runs, faults, updates, client, clientInfo, calls, initCalls>>

\* client?.info, read through the module variable while session s is being
\* marked ready: the info of the session held, undefined when that one is not ready
ClientInfoAtReady(s) ==
  IF client = NoClient THEN NoInfo
  ELSE IF client = s \/ sessions[client].status = "ready" THEN InfoOf(client)
  ELSE NoInfo

\* client.on('ready')
OnReady(s) ==
  /\ sessions[s].status \in {"initializing", "pairing"}
  /\ SetStatus(s, "ready")
  /\ isReady' = TRUE
  /\ qrCodeData' = Null
  /\ clientInfo' = ClientInfoAtReady(s)
  /\ UNCHANGED <<tables, rest, msgs, runs, faults, updates, client, calls, initCalls>>

\* client.on('auth_failure')
OnAuthFailure(s) ==
  /\ sessions[s].status \in {"initializing", "pairing"}
  /\ SetStatus(s, "authFailed")
  /\ isReady' = FALSE
  /\ UNCHANGED <<tables, rest, msgs, runs, faults, updates, client, qrCodeData, clientInfo,
                 calls, initCalls>>

\* client.on('disconnected'): emitted by a ready session that loses its
\* connection, or by one whose logout() has completed
OnDisconnected(s) ==
  /\ sessions[s].status \in {"ready", "loggedOut"}
  /\ SetStatus(s, "closed")
  /\ isReady' = FALSE
  /\ client' = NoClient
  /\ UNCHANGED <<tables, rest, msgs, runs, faults, updates, qrCodeData, clientInfo, calls, initCalls>>

\* an invocation of disconnectWhatsApp or sendWhatsAppMessage: where it is,
\* the session object it called, and what it returned
\*   asked   history: number of transport calls it has made
\*   msg     history: the message the transport created for it
\*   was     history: client and isReady when it was invoked
NoResult == [success |-> FALSE, error |-> Null]
NewCall(op) ==
  [ op |-> op, pc |-> "start", target |-> NoClient, phone |-> Empty, result |-> NoResult,
    threw |-> FALSE, asked |-> 0, msg |-> 0, was |-> <<client, isReady>> ]

Returns(call, result) == [call EXCEPT !.pc = "done", !.result = result]
\* { success: true }; also stands for a void function that has returned
Success == [success |-> TRUE, error |-> Null]
SetCall(c, call) == calls' = [calls EXCEPT ![c] = call]

\* disconnectWhatsApp(): if (client) { await client.logout() ... }; with no
\* session object the function returns at once
disconnectWhatsApp ==
  /\ Len(calls) < MaxCalls
  /\ IF client # NoClient
     THEN calls' = Append(calls, [NewCall("disconnect") EXCEPT !.pc = "logout",
                                                               !.target = client, !.asked = 1])
     ELSE calls' = Append(calls, Returns(NewCall("disconnect"), Success))
  /\ UNCHANGED <<tables, rest, msgs, runs, faults, updates, client, isReady, qrCodeData,
                 clientInfo, sessions, initCalls>>

\* (variant: the teardown forgets to reset clientInfo)
LogoutReturnsKeepsInfo(c) ==
  /\ calls[c].op = "disconnect" /\ calls[c].pc = "logout"
  /\ SetStatus(calls[c].target,
               IF Live(calls[c].target) THEN "loggedOut" ELSE sessions[calls[c].target].status)
  /\ client' = NoClient
  /\ isReady' = FALSE
  /\ qrCodeData' = Null
  /\ SetCall(c, Returns(calls[c], Success))
  /\ UNCHANGED <<tables, rest, msgs, runs, updates, initCalls, faults, clientInfo>>

\* ... client.logout() resolves: client = null; isReady = false;
\* qrCodeData = null; clientInfo = null.  Or it rejects, and so does the call
LogoutReturns(c) ==
  /\ calls[c].op = "disconnect" /\ calls[c].pc = "logout"
  /\ \/ /\ SetStatus(calls[c].target,
                     IF Live(calls[c].target) THEN "loggedOut" ELSE sessions[calls[c].target].status)
        /\ client' = NoClient
        /\ isReady' = FALSE
        /\ qrCodeData' = Null
        /\ clientInfo' = NoInfo
        /\ SetCall(c, Returns(calls[c], Success))
        /\ UNCHANGED faults
     \/ /\ faults < MaxFaults
        /\ faults' = faults + 1
        /\ SetCall(c, [Returns(calls[c], NoResult) EXCEPT !.threw = TRUE])
        /\ UNCHANGED <<client, isReady, qrCodeData, clientInfo, sessions>>
  /\ UNCHANGED <<tables, rest, msgs, runs, updates, initCalls>>

\* getWhatsAppStatus()
getWhatsAppStatus ==
  [ initialized |-> client # NoClient,
    ready |-> isReady,
    qrCode |-> qrCodeData,
    info |-> IF clientInfo # NoInfo
             THEN [phoneNumber |-> clientInfo.user, name |-> clientInfo.pushname]
             ELSE [phoneNumber |-> Null, name |-> Null] ]

\* sendWhatsAppMessage: formattedPhone
DialLocalLen == 10
FormatPhone(phone) ==
  LET formattedPhone == StripNonDigits(phone)
  IN IF Len(formattedPhone) = DialLocalLen THEN CC52 \o formattedPhone ELSE formattedPhone

NotConnected == [success |-> FALSE, error |-> <<"WhatsApp not connected">>]
NotRegistered == [success |-> FALSE, error |-> <<"Numero no registrado en WhatsApp">>]
\* { success: false, error: error.message }
Failure == [success |-> FALSE, error |-> <<"error.message">>]

\* the phones send() is called with, and the text
SendPhones == { Local10, Plus \o Phone521 }
SendText == <<"hola">>

\* (variant: the ready flag is not consulted)
NotReadyClientOnly(c, ready) == c = NoClient

\* if (!client || !isReady)
NotReady(c, ready) == c = NoClient \/ ~ready

\* sendWhatsAppMessage(phone, message) up to await client.getNumberId(...)
sendWhatsAppMessage ==
  /\ Len(calls) < MaxCalls
  /\ \E phone \in SendPhones :
       LET call == [NewCall("send") EXCEPT !.phone = phone]
       IN IF NotReady(client, isReady)
          THEN calls' = Append(calls, Returns(call, NotConnected))
          ELSE calls' = Append(calls, [call EXCEPT !.pc = "getNumberId", !.target = client,
                                                   !.phone = FormatPhone(phone), !.asked = 1])
  /\ UNCHANGED <<tables, rest, msgs, runs, faults, updates, client, isReady, qrCodeData,
                 clientInfo, sessions, initCalls>>

\* client.getNumberId resolves (null, or the id of the registered number) or
\* rejects; with an id, client.sendMessage is called on whatever client holds
\* now (a TypeError inside the try when it is null)
GetNumberIdReturns(c) ==
  /\ calls[c].op = "send" /\ calls[c].pc = "getNumberId"
  /\ \/ /\ sessions[calls[c].target].status = "ready"
        /\ \/ SetCall(c, Returns(calls[c], NotRegistered))
           \/ IF client = NoClient THEN SetCall(c, Returns(calls[c], Failure))
              ELSE SetCall(c, [calls[c] EXCEPT !.pc = "sendMessage", !.target = client,
                                               !.asked = 2])
        /\ UNCHANGED faults
     \/ /\ sessions[calls[c].target].status # "ready" \/ faults < MaxFaults
        /\ faults' = IF sessions[calls[c].target].status # "ready" THEN faults ELSE faults + 1
        /\ SetCall(c, Returns(calls[c], Failure))
  /\ UNCHANGED <<tables, rest, msgs, runs, updates, client, isReady, qrCodeData, clientInfo,
                 sessions, initCalls>>

\* the chat id the transport gives the message it has sent: the number id, or
\* the linked-device id of the recipient
SentTo(formattedPhone) == { formattedPhone \o AtCUs, LidUser \o AtLid }

\* client.sendMessage resolves: the transport has created the message and
\* emitted its events (each listener runs up to its first await); or it rejects
SendMessageReturns(c) ==
  /\ calls[c].op = "send" /\ calls[c].pc = "sendMessage"
  /\ \/ /\ sessions[calls[c].target].status = "ready"
        /\ Len(msgs) < MaxSent
        /\ \E to \in SentTo(calls[c].phone) : \E kinds \in EmittedKinds(TRUE) :
             LET m == Len(msgs) + 1
                 msg == [fromMe |-> TRUE, remote |-> to, hasMedia |-> FALSE, body |-> SendText]
             IN /\ msgs' = Append(msgs, msg)
                /\ runs' = [ x \in DOMAIN runs \cup ({m} \X kinds) |->
                             IF x[1] = m
                             THEN IF x[2] = "message" THEN OnMessage(msg) ELSE OnMessageCreate(msg)
                             ELSE runs[x] ]
                /\ SetCall(c, [Returns(calls[c], Success) EXCEPT !.msg = m])
        /\ UNCHANGED faults
     \/ /\ sessions[calls[c].target].status # "ready" \/ faults < MaxFaults
        /\ faults' = IF sessions[calls[c].target].status # "ready" THEN faults ELSE faults + 1
        /\ SetCall(c, Returns(calls[c], Failure))
        /\ UNCHANGED <<msgs, runs>>
  /\ UNCHANGED <<tables, rest, updates, client, isReady, qrCodeData, clientInfo, sessions, initCalls>>

\* the module as loaded: no session object
Loaded ==
  /\ client = NoClient
  /\ isReady = FALSE
  /\ qrCodeData = Null
  /\ clientInfo = NoInfo
  /\ sessions = <<>>
  /\ calls = <<>>
  /\ initCalls = 0

\* the life of the singleton: the exported functions and the transport's
\* lifecycle events, in any order, on a fresh database
SessionInit == StoreInit /\ contacts = <<>> /\ Loaded

SessionNext ==
  \/ initWhatsAppClient
  \/ disconnectWhatsApp
  \/ \E s \in DOMAIN sessions : OnQr(s)
  \/ \E s \in DOMAIN sessions : QrEncoded(s)
  \/ \E s \in DOMAIN sessions : OnReady(s)
  \/ \E s \in DOMAIN sessions : OnAuthFailure(s)
  \/ \E s \in DOMAIN sessions : OnDisconnected(s)
  \/ \E c \in DOMAIN calls : LogoutReturns(c)

SessionSpec == SessionInit /\ [][SessionNext]_vars

\* sending: a session that restores its saved pairing (no qr code), send()
\* called in any state, and the handlers of the events of the sent messages
SendInit == StoreInit /\ Loaded

SendNext ==
  \/ initWhatsAppClient
  \/ sendWhatsAppMessage
  \/ \E s \in DOMAIN sessions : OnReady(s)
  \/ \E s \in DOMAIN sessions : OnAuthFailure(s)
  \/ \E s \in DOMAIN sessions : OnDisconnected(s)
  \/ \E c \in DOMAIN calls : GetNumberIdReturns(c)
  \/ \E c \in DOMAIN calls : SendMessageReturns(c)
  \/ \E e \in Events : GetChatReturns(e)
  \/ \E e \in Events : ChatGetContactReturns(e)
  \/ \E e \in Events : SelectReturns(e)
  \/ \E e \in Events : GetChatByIdReturns(e)
  \/ \E e \in Events : InsertContactReturns(e)
  \/ \E e \in Events : InsertConversationReturns(e)
  \/ \E e \in Events : UpdateContactReturns(e)
  \/ \E e \in Events : InsertOpportunityReturns(e)
  \/ \E e \in Events : Throws(e)

SendSpec == SendInit /\ [][SendNext]_vars

\* ------------------------------------------------------------------------
\* The handlers when a chat of another country writes: text messages, in both
\* directions, of a Mexican chat and of a chat whose number has the same last
\* 10 digits behind another country code
\* ------------------------------------------------------------------------
ForeignUser == <<"1">> \o Local10

ForeignPool ==
  { [fromMe |-> f, remote |-> r \o AtCUs, hasMedia |-> FALSE, body |-> Text.body] :
      f \in BOOLEAN, r \in {Phone52, ForeignUser} }

EmitForeign == EmitFrom(ForeignPool)

ForeignNext ==
  \/ EmitForeign
  \/ \E e \in Events : GetContactReturns(e)
  \/ \E e \in Events : SelectReturns(e)
  \/ \E e \in Events : GetChatByIdReturns(e)
  \/ \E e \in Events : InsertContactReturns(e)
  \/ \E e \in Events : InsertConversationReturns(e)
  \/ \E e \in Events : UpdateContactReturns(e)
  \/ \E e \in Events : InsertOpportunityReturns(e)
  \/ \E e \in Events : Throws(e)

ForeignSpec == Init /\ [][ForeignNext]_vars

\* ------------------------------------------------------------------------
\* routes/contacts.ts POST /consolidate-duplicates, beside the handlers.
\* createdAt is the instant of the insert, so the rows of a group sort as
\* their ids, and rows the sort finds equal keep the order of the select.
\* ------------------------------------------------------------------------
\* contact.phone && normalizePhoneToCanonical(contact.phone): the row is grouped
Groupable(row) == Truthy(row.phone) /\ normalizePhoneToCanonical(row.phone) # Null

\* phoneGroups.get(normalized)
GroupOf(row) ==
  { r \in { contacts[i] : i \in DOMAIN contacts } :
      Groupable(r) /\ normalizePhoneToCanonical(r.phone) = normalizePhoneToCanonical(row.phone) }

\* group[0] after the sort
PrimaryOf(row) == CHOOSE r \in GroupOf(row) : \A q \in GroupOf(row) : r.id <= q.id

\* a member of group.slice(1) of a group of two or more
IsDuplicate(row) == Groupable(row) /\ PrimaryOf(row).id # row.id

\* db.update(table).set({ contactId: primary.id }).where(eq(table.contactId, duplicate.id))
MovedTo(contactId) ==
  IF \E i \in DOMAIN contacts : contacts[i].id = contactId /\ IsDuplicate(contacts[i])
  THEN PrimaryOf(contacts[CHOOSE i \in DOMAIN contacts : contacts[i].id = contactId]).id
  ELSE contactId

Reparented(table) == [ r \in DOMAIN table |-> [table[r] EXCEPT !.contactId = MovedTo(@)] ]

\* db.delete(contacts) of every duplicate; db.update(contacts).set({ phone })
\* of the primary of every group of two or more
Consolidated ==
  LET kept == SelectSeq(contacts, LAMBDA row : ~IsDuplicate(row))
  IN [ i \in DOMAIN kept |->
       IF Groupable(kept[i]) /\ Cardinality(GroupOf(kept[i])) > 1
       THEN [kept[i] EXCEPT !.phone = normalizePhoneToCanonical(@)] ELSE kept[i] ]

\* better-sqlite3 answers synchronously: the store calls a handler makes
\* between two transport awaits run in one turn of the event loop, and so does
\* a whole request; a request starts while every handler waits for the transport
Turn ==
  \A e \in DOMAIN runs :
    runs[e].pc \in {"getContact", "getChat", "chatGetContact", "downloadMedia", "getChatById", "done"}

\* the request and its response; history: the ids removed and the handlers
\* that were waiting
ConsolidateCall(removed) ==
  [ op |-> "consolidate", pc |-> "done", result |-> Success, removed |-> removed,
    waiting |-> { e \in DOMAIN runs : runs[e].pc # "done" } ]

\* (variant: the tasks of a duplicate are not moved)
ConsolidateLeavesTasks ==
  /\ Len(calls) < MaxCalls /\ Turn
  /\ conversations' = Reparented(conversations)
  /\ opportunities' = Reparented(opportunities)
  /\ contacts' = Consolidated
  /\ calls' = Append(calls, ConsolidateCall({ contacts[i].id : i \in { j \in DOMAIN contacts : IsDuplicate(contacts[j]) } }))
  /\ UNCHANGED <<mediaStore, msgs, runs, faults, updates, client, isReady, qrCodeData,
                 clientInfo, sessions, initCalls, tasks, sqliteSequence, probe>>

ConsolidateDuplicates ==
  /\ Len(calls) < MaxCalls /\ Turn
  /\ conversations' = Reparented(conversations)
  /\ opportunities' = Reparented(opportunities)
  /\ tasks' = Reparented(tasks)
  /\ contacts' = Consolidated
  /\ calls' = Append(calls, ConsolidateCall({ contacts[i].id : i \in { j \in DOMAIN contacts : IsDuplicate(contacts[j]) } }))
  /\ UNCHANGED <<mediaStore, msgs, runs, faults, updates, client, isReady, qrCodeData,
                 clientInfo, sessions, initCalls, sqliteSequence, probe>>

\* contacts with equivalent phones left by the import and by the handlers,
\* each with a conversation, an opportunity and a task
ConsolidateInit ==
  /\ \E ps \in { <<StoredLegacy, StoredCanonical>>, <<StoredCanonical, Null, StoredLegacy>>,
                  <<Local10, StoredLegacy, StoredCanonical>>, <<StoredLegacy>>,
                  <<Plus \o CC521 \o OtherLocal, Plus \o CC52 \o OtherLocal>> } :
       /\ contacts = [ i \in 1..Len(ps) |->
                      [ id |-> i, name |-> <<"Stored">>, phone |-> ps[i],
                        category |-> "cliente", lastContactDate |-> NoEvent, ev |-> NoEvent ] ]
       /\ conversations = [ i \in 1..Len(ps) |->
                            ConversationValues(i, Text.body, "entrante", NoMedia, NoEvent) ]
       /\ opportunities = [ i \in 1..Len(ps) |-> OpportunityValues(i, <<"Stored">>, NoEvent) ]
       /\ tasks = [ i \in 1..Len(ps) |-> [contactId |-> i, title |-> <<"Llamar">>] ]
       /\ sqliteSequence = Len(ps)
  /\ mediaStore = {} /\ msgs = <<>> /\ runs = <<>> /\ faults = 0 /\ updates = {}
  /\ probe = NoProbe
  /\ Paired

ConsolidateNext ==
  \/ ConsolidateDuplicates
  \/ EmitForeign
  \/ \E e \in Events : GetContactReturns(e)
  \/ \E e \in Events : SelectReturns(e)
  \/ \E e \in Events : GetChatByIdReturns(e)
  \/ \E e \in Events : InsertContactReturns(e)
  \/ \E e \in Events : InsertConversationReturns(e)
  \/ \E e \in Events : UpdateContactReturns(e)
  \/ \E e \in Events : InsertOpportunityReturns(e)

ConsolidateSpec == ConsolidateInit /\ [][ConsolidateNext]_vars

\* ------------------------------------------------------------------------
\* utils/phone.ts applied to raw phones: the arguments are drawn, each
\* function is applied once and its value kept
\* ------------------------------------------------------------------------
LocalNumbers == {Local10, OtherLocal}

\* the historical spellings of a local number
Spellings(d) == {d, CC52 \o d, Plus \o CC52 \o d, CC521 \o d, Plus \o CC521 \o d}

\* a spelling as people type it, non-digits interleaved: " 5215-512 (345678)"
Typed(s) ==
  <<" ">> \o SubSeq(s, 1, 4) \o <<"-">> \o SubSeq(s, 5, 7) \o <<" ", "(">>
          \o SubSeq(s, 8, Len(s)) \o <<")">>

\* numbers of other countries with 12 and 13 digits (ForeignUser has 11)
Foreign12 == <<"4", "4">> \o Local10
Foreign13 == <<"4", "9", "1">> \o Local10

RawPhones ==
  UNION { Spellings(d) \cup { Typed(sp) : sp \in Spellings(d) } : d \in LocalNumbers }
  \cup { Null, Empty, <<"-">>, <<"a", "b", "c">>, ShortUser, SubSeq(Local10, 1, 9), ForeignUser,
         Plus \o ForeignUser, Foreign12, Foreign13, LidUser }

PhoneProbe(a, b) ==
  [ fn |-> "phone", a |-> a, b |-> b, done |-> {}, canonical |-> Null, again |-> Null,
    variants |-> <<>>, matched |-> FALSE ]

Applies(f) == probe.fn = "phone" /\ f \notin probe.done

Applied(f) == probe.fn = "phone" /\ f \in probe.done

\* normalizePhoneToCanonical(a)
ApplyCanonical ==
  /\ Applies("canonical")
  /\ probe' = [probe EXCEPT !.canonical = normalizePhoneToCanonical(probe.a),
                            !.done = @ \cup {"canonical"}]
  /\ UNCHANGED <<tables, msgs, runs, faults, updates, session, tasks, sqliteSequence>>

\* normalizePhoneToCanonical(normalizePhoneToCanonical(a))
ApplyCanonicalAgain ==
  /\ Applies("again") /\ Applied("canonical")
  /\ probe' = [probe EXCEPT !.again = normalizePhoneToCanonical(probe.canonical),
                            !.done = @ \cup {"again"}]
  /\ UNCHANGED <<tables, msgs, runs, faults, updates, session, tasks, sqliteSequence>>

\* getPhoneVariants(a); its parameter is a string
ApplyVariants ==
  /\ Applies("variants") /\ probe.a # Null
  /\ probe' = [probe EXCEPT !.variants = getPhoneVariants(probe.a),
                            !.done = @ \cup {"variants"}]
  /\ UNCHANGED <<tables, msgs, runs, faults, updates, session, tasks, sqliteSequence>>

\* phonesMatch(a, b)
ApplyMatch ==
  /\ Applies("matched")
  /\ probe' = [probe EXCEPT !.matched = phonesMatch(probe.a, probe.b),
                            !.done = @ \cup {"matched"}]
  /\ UNCHANGED <<tables, msgs, runs, faults, updates, session, tasks, sqliteSequence>>

PhoneInit ==
  /\ TablesInit /\ contacts = <<>> /\ Loaded
  /\ \E a \in RawPhones, b \in RawPhones : probe = PhoneProbe(a, b)

PhoneNext ==
  \/ ApplyCanonical
  \/ ApplyCanonicalAgain
  \/ ApplyVariants
  \/ ApplyMatch

PhoneSpec == PhoneInit /\ [][PhoneNext]_vars

\* ------------------------------------------------------------------------
\* The media path: saveMediaFile writes a file and returns its URL, GET
\* /api/media/:filename (index.ts) serves it
\* ------------------------------------------------------------------------
\* /^[a-zA-Z0-9_\-.]+$/ : of the punctuation of the model's strings only
\* underscore, dash and dot pass
SafeFilename(filename) ==
  filename # Empty /\ \A i \in DOMAIN filename : filename[i] \notin Punct \ {"_", "-", "."}

\* the endpoint's answer: 400 invalid filename, 404 no such file under
\* UPLOADS_DIR, 200 the file's bytes
MediaStatus(filename) ==
  IF ~SafeFilename(filename) THEN <<"400">>
  ELSE IF filename \notin mediaStore THEN <<"404">>
  ELSE <<"200">>

\* media.mimetype as the transport declares it: types of the extension
\* table, types named by their subtype, and one without a subtype
Mimetypes ==
  { MimeJpeg, MimeZip,
    <<"audio", "/", "ogg", ";", " ", "codecs", "=", "opus">>,
    <<"image", "/", "svg", "+", "xml">>,
    <<"application", "/", "vnd", ".", "ms", "-", "excel">>,
    <<"text", "/", "plain">>,
    <<"octet">> }

\* message.id._serialized of a phone chat and of a linked-device chat, and the
\* fallback String(Date.now())
SerializedIds ==
  { <<"false", "_">> \o Phone521 \o AtCUs \o <<"_", "3EB0A1">>,
    <<"true", "_">> \o LidUser \o AtLid \o <<"_", "3EB0A2">>,
    <<"1700000000000">> }

MediaProbe(media, messageId, timestamp) ==
  [ fn |-> "media", media |-> media, messageId |-> messageId, timestamp |-> timestamp,
    done |-> {}, saved |-> NoMedia, status |-> Empty ]

\* saveMediaFile(media, messageId): the file is written, or writeFileSync
\* throws and the catch returns null
SaveMedia ==
  /\ probe.fn = "media" /\ "save" \notin probe.done
  /\ \E writeOk \in BOOLEAN :
       LET saved == saveMediaFile(probe.media, probe.messageId, probe.timestamp, writeOk)
       IN /\ mediaStore' = IF saved.file = Null THEN mediaStore
                           ELSE mediaStore \cup {saved.file}
          /\ probe' = [probe EXCEPT !.saved = saved.result, !.done = @ \cup {"save"}]
  /\ UNCHANGED <<contacts, conversations, opportunities, msgs, runs, faults, updates,
                 session, tasks, sqliteSequence>>

\* GET of the mediaUrl a conversation row carries
GetMedia ==
  /\ probe.fn = "media" /\ "save" \in probe.done /\ "get" \notin probe.done
  /\ probe.saved # NoMedia
  /\ probe' = [probe EXCEPT !.status = MediaStatus(DropN(probe.saved.mediaUrl, 1)),
                            !.done = @ \cup {"get"}]
  /\ UNCHANGED <<tables, msgs, runs, faults, updates, session, tasks, sqliteSequence>>

MediaInit ==
  /\ TablesInit /\ contacts = <<>> /\ Loaded
  /\ \E data \in BOOLEAN, mimetype \in Mimetypes, messageId \in SerializedIds,
        timestamp \in { <<"1700000000000">>, <<"1700000000001">> } :
       probe = MediaProbe([data |-> data, mimetype |-> mimetype], messageId, timestamp)

MediaNext ==
  \/ SaveMedia
  \/ GetMedia

MediaSpec == MediaInit /\ [][MediaNext]_vars

\* ------------------------------------------------------------------------
\* Vocabulary of the properties
\* ------------------------------------------------------------------------
Range(f) == { f[i] : i \in DOMAIN f }
ContactsBy(e) == { i \in DOMAIN contacts : contacts[i].ev = e }
ConversationsBy(e) == { i \in DOMAIN conversations : conversations[i].ev = e }
OpportunitiesBy(e) == { i \in DOMAIN opportunities : opportunities[i].ev = e }
ConversationsOf(m) == { i \in DOMAIN conversations : conversations[i].ev[1] = m }
FilesOf(m) == { f \in mediaStore : Includes(f, Sanitize(MessageId(m))) }
Finished(e) == runs[e].pc = "done"
Completed(e) == Finished(e) /\ runs[e].outcome # "error"
DigitCount(s) == Len(StripNonDigits(s))
InDigitRange(s) == DigitCount(s) >= MinDigits /\ DigitCount(s) <= MaxDigits
HandlerMade(row) == row.ev # NoEvent

\* the variants of a phone as section 4.1 lists them, in that order
ListedVariants(phone) ==
  LET d == StripNonDigits(phone)
      l == LastN(d, LocalLen)
  IN << Plus \o CC52 \o l, CC52 \o l, Plus \o CC521 \o l, CC521 \o l, l, d, Plus \o d >>

Listed(phone, stored) == stored \in Range(ListedVariants(phone))

\* position of the first listed variant equal to a stored phone
Rank(phone, stored) ==
  CHOOSE k \in 1..7 :
    /\ ListedVariants(phone)[k] = stored
    /\ \A j \in 1..7 : ListedVariants(phone)[j] = stored => k <= j

\* the canonical form as section 4.1 defines it
Canonical(phone) ==
  LET d == StripNonDigits(phone)
  IN IF Len(d) < 10 THEN Null
     ELSE IF Len(d) = 10 THEN Plus \o CC52 \o d
     ELSE IF Len(d) = 13 /\ StartsWith(d, CC521) THEN Plus \o CC52 \o LastN(d, 10)
     ELSE Plus \o d

\* ------------------------------------------------------------------------
\* C1: after any interleaving of handler runs for events whose phones
\* canonicalize to the same value, starting from a store with no contact for
\* that phone, the store holds at most one contact with that canonical phone.
\* ------------------------------------------------------------------------
C1_AtMostOneContactPerPhone ==
  \A i, j \in DOMAIN contacts :
    ( /\ i # j
      /\ Canonical(contacts[i].phone) # Null
      /\ Canonical(contacts[i].phone) = Canonical(contacts[j].phone) )
    => \E k \in DOMAIN contacts :
         ~HandlerMade(contacts[k]) /\ Canonical(contacts[k].phone) = Canonical(contacts[i].phone)

\* ------------------------------------------------------------------------
\* C2: every one-to-one message with a valid phone is processed by exactly one
\* of the two handlers and yields exactly one conversation record, entrante
\* when fromMe is false and saliente when it is true; no message yields two
\* records, and none yields no record once its handler has returned without
\* an exception.
\* ------------------------------------------------------------------------
Processing(m) == { e \in DOMAIN runs : e[1] = m /\ runs[e].outcome # "skip_fromMe" }

C2_OneHandlerOneRecord ==
  \A m \in 1..Len(msgs) :
    /\ Cardinality(Processing(m)) = 1
    /\ Cardinality(ConversationsOf(m)) <= 1
    /\ \A i \in ConversationsOf(m) :
         /\ conversations[i].ev \in Processing(m)
         /\ conversations[i].direction = IF msgs[m].fromMe THEN "saliente" ELSE "entrante"
    /\ \A e \in Processing(m) :
         ( /\ Completed(e)
           /\ IsOneToOne(msgs[m].remote)
           /\ runs[e].resolved /\ InDigitRange(runs[e].phone) )
         => Cardinality(ConversationsOf(m)) = 1

C2_Witness ==
  \E m1, m2 \in 1..Len(msgs) :
    /\ msgs[m1].fromMe /\ ~msgs[m2].fromMe
    /\ Started(<<m1, "message">>) /\ Started(<<m1, "message_create">>)
    /\ Cardinality(ConversationsOf(m1)) = 1 /\ Cardinality(ConversationsOf(m2)) = 1
    /\ \A e \in Processing(m1) \cup Processing(m2) : Completed(e)

\* ------------------------------------------------------------------------
\* C3: no conversation, contact or opportunity is ever written for an event
\* of a group chat or of the status/broadcast pseudo-chat, in either handler,
\* whatever the message's contact accessor returns.
\* ------------------------------------------------------------------------
C3_NoWriteForGroupOrStatus ==
  \A e \in DOMAIN runs :
    ~IsOneToOne(Remote(e))
    => ContactsBy(e) = {} /\ ConversationsBy(e) = {} /\ OpportunitiesBy(e) = {}

\* ------------------------------------------------------------------------
\* C4: for an outbound event whose destination is an @lid id and whose chat
\* lookup returns a contact entity with a real phone number, the conversation
\* is attached to the contact found or created from that real phone, and no
\* contact is created from the opaque identifier.
\* ------------------------------------------------------------------------
LidOutbound(e) == e[2] = "message_create" /\ Includes(Remote(e), AtLid)

C4_LidResolvedFromRealPhone ==
  \A e \in DOMAIN runs :
    (LidOutbound(e) /\ runs[e].resolved /\ Truthy(runs[e].number))
    => /\ runs[e].phone = runs[e].number
       /\ \A i \in ConversationsBy(e) :
            LET c == contacts[conversations[i].contactId]
            IN /\ Listed(runs[e].number, c.phone)
               /\ c.ev = e => c.phone = Canonical(runs[e].number)
       /\ \A i \in ContactsBy(e) :
            /\ contacts[i].phone = Canonical(runs[e].number)
            /\ StripNonDigits(contacts[i].phone) # StripNonDigits(Remote(e))

C4_Witness ==
  \E e \in DOMAIN runs :
    /\ LidOutbound(e) /\ Truthy(runs[e].number) /\ Completed(e)
    /\ ConversationsBy(e) # {} /\ ContactsBy(e) # {}

\* ------------------------------------------------------------------------
\* C5: no contact is created, and no conversation attached, with the digits
\* of a linked-device identifier as the phone number: when the real phone
\* cannot be recovered, the validation gate discards the event.
\* ------------------------------------------------------------------------
C5_NoLidDigitsAsPhone ==
  \A e \in DOMAIN runs :
    Includes(Remote(e), AtLid)
    => /\ \A i \in ContactsBy(e) :
            StripNonDigits(contacts[i].phone) # StripNonDigits(Remote(e))
       /\ \A i \in ConversationsBy(e) :
            StripNonDigits(contacts[conversations[i].contactId].phone) # StripNonDigits(Remote(e))

Matching(e) ==
  { i \in 1..runs[e].snapshot : Listed(runs[e].phone, contacts[i].phone) }

C7_ExistingContactReused ==
  \A e \in DOMAIN runs :
    Matching(e) # {}
    => /\ ContactsBy(e) = {} /\ OpportunitiesBy(e) = {}
       /\ Completed(e)
          => /\ Cardinality(ConversationsBy(e)) = 1
             /\ \A i \in ConversationsBy(e) :
                  LET c == contacts[conversations[i].contactId]
                  IN /\ Listed(runs[e].phone, c.phone)
                     /\ \A k \in Matching(e) :
                          Rank(runs[e].phone, c.phone) <= Rank(runs[e].phone, contacts[k].phone)

C7_Witness ==
  \E e \in DOMAIN runs :
    /\ Completed(e) /\ ConversationsBy(e) # {}
    /\ \E i, j \in Matching(e) : contacts[i].phone # contacts[j].phone
    /\ \E i \in Matching(e) : i < contacts[conversations[CHOOSE x \in ConversationsBy(e) : TRUE].contactId].id

\* ------------------------------------------------------------------------
\* C8: an event from a valid phone with no matching contact, processed
\* without failure, creates exactly one contact (canonical phone, category
\* prospecto, name = the display name when present, else the placeholder),
\* one opportunity for it (value 0, stage Lead, title containing the name)
\* and one conversation for it.
\* ------------------------------------------------------------------------
ExpectedName(run) ==
  IF Truthy(run.names[1]) THEN run.names[1]
  ELSE IF Truthy(run.names[2]) THEN run.names[2]
  ELSE <<"Nuevo - ">> \o run.phone

C8_UnknownPhoneProvisioned ==
  \A e \in DOMAIN runs :
    /\ runs[e].missed => Matching(e) = {} /\ InDigitRange(runs[e].phone)
    /\ (Completed(e) /\ runs[e].resolved /\ InDigitRange(runs[e].phone)
          /\ ~IsGroupPhone(runs[e].phone)
          /\ \A i \in DOMAIN contacts : Listed(runs[e].phone, contacts[i].phone) => contacts[i].ev = e)
       => /\ Cardinality(ContactsBy(e)) = 1
          /\ Cardinality(OpportunitiesBy(e)) = 1
          /\ Cardinality(ConversationsBy(e)) = 1
          /\ \A c \in ContactsBy(e), o \in OpportunitiesBy(e), v \in ConversationsBy(e) :
               /\ contacts[c].phone = Canonical(runs[e].phone)
               /\ contacts[c].category = "prospecto"
               /\ contacts[c].name = ExpectedName(runs[e])
               /\ opportunities[o].contactId = contacts[c].id
               /\ opportunities[o].value = 0
               /\ opportunities[o].stage = "Lead"
               /\ Includes(opportunities[o].title, contacts[c].name)
               /\ conversations[v].contactId = contacts[c].id

C8_Witness ==
  \E e \in DOMAIN runs :
    /\ Completed(e) /\ runs[e].missed /\ ~Truthy(runs[e].names[1])
    /\ ContactsBy(e) # {} /\ OpportunitiesBy(e) # {} /\ ConversationsBy(e) # {}

\* ------------------------------------------------------------------------
\* C9: a handler run that inserts a contact also inserts exactly one
\* opportunity referencing it before it returns, unless the opportunity insert
\* itself fails; and no run inserts an opportunity for a contact that already
\* existed.
\* ------------------------------------------------------------------------
C9_OneOpportunityPerProvisionedContact ==
  \A e \in DOMAIN runs :
    /\ \A o \in OpportunitiesBy(e) :
         \E c \in ContactsBy(e) : contacts[c].id = opportunities[o].contactId
    /\ (Finished(e) /\ ~(runs[e].outcome = "error" /\ runs[e].at = "insertOpportunity"))
       => \A c \in ContactsBy(e) :
            Cardinality({ o \in OpportunitiesBy(e) :
                            opportunities[o].contactId = contacts[c].id }) = 1

\* ------------------------------------------------------------------------
\* C10: every handler run that inserts a conversation also updates the owning
\* contact's last-contact timestamp before it returns, absent store failure,
\* on all four paths.
\* ------------------------------------------------------------------------
C10_LastContactUpdated ==
  \A e \in DOMAIN runs :
    Completed(e)
    => \A i \in ConversationsBy(e) : <<conversations[i].contactId, e>> \in updates

\* ------------------------------------------------------------------------
\* C11: when the lookup that supplies the counterparty's display name throws
\* (inbound: message.getContact(); outbound: client.getChatById()), the event
\* of a one-to-one chat with a valid number is still persisted: the handler
\* returns having inserted one conversation and updated the contact's
\* last-contact date, and a contact it creates has the placeholder name.
\* ------------------------------------------------------------------------
NameLookupFailed(e) ==
  \/ e[2] = "message" /\ runs[e].at = "getContact"
  \/ /\ e[2] = "message_create" /\ runs[e].missed /\ ~runs[e].chatObj
     /\ runs[e].pc # "getChatById" /\ runs[e].outcome # "error"

C11_NameFailureKeepsConversation ==
  \A e \in DOMAIN runs :
    ( /\ NameLookupFailed(e) /\ Finished(e)
      /\ IsOneToOne(Remote(e)) /\ InDigitRange(Remote(e)) )
    => /\ Cardinality(ConversationsBy(e)) = 1
       /\ \A c \in ContactsBy(e) : Includes(contacts[c].name, <<"Nuevo - ">>)
       /\ \A i \in ConversationsBy(e) : <<conversations[i].contactId, e>> \in updates

\* ------------------------------------------------------------------------
\* C12: when the media download or the media save fails for an event with a
\* valid phone, the conversation is still inserted, with null media kind,
\* null media reference and non-empty content.
\* ------------------------------------------------------------------------
MediaFailed(e) ==
  /\ msgs[e[1]].hasMedia /\ runs[e].mediaData = NoMedia
  /\ runs[e].pc \notin {"start", "getContact", "getChat", "chatGetContact", "downloadMedia"}
  /\ runs[e].resolved /\ InDigitRange(runs[e].phone) /\ ~IsGroupPhone(runs[e].phone)

C12_MediaFailureKeepsConversation ==
  \A e \in DOMAIN runs :
    MediaFailed(e)
    => /\ FilesOf(e[1]) = {}
       /\ \A i \in ConversationsBy(e) :
            /\ conversations[i].mediaType = Null
            /\ conversations[i].mediaUrl = Null
            /\ Truthy(conversations[i].content)
       /\ Completed(e) => Cardinality(ConversationsBy(e)) = 1

C12_Witness ==
  \E e \in DOMAIN runs :
    /\ MediaFailed(e) /\ Completed(e) /\ faults = 1 /\ Len(msgs) = 1
    /\ ConversationsBy(e) # {} /\ ContactsBy(e) = {}
    /\ ~Truthy(msgs[e[1]].body)

\* ------------------------------------------------------------------------
\* C13: an exception raised while an event is processed is caught inside the
\* handler: the run has returned, the session object and the ready flag are
\* what they were, and a valid event delivered after the failing one is
\* processed and persisted.
\* ------------------------------------------------------------------------
Caught(e) == runs[e].outcome \in {"error", "lid_chat_failed"}

C13_FailureIsContained ==
  /\ \A e \in DOMAIN runs :
       /\ Caught(e) => Finished(e)
       /\ runs[e].outcome = "error" => runs[e].at \in ThrowingPcs
  /\ faults > 0
     => /\ client = 1 /\ isReady
        /\ sessions[client].status = "ready" /\ sessions[client].handlers = 1
  /\ \A e1, e2 \in DOMAIN runs :
       ( /\ Caught(e1) /\ e1[1] < e2[1]
         /\ e2 \in Processing(e2[1]) /\ Completed(e2)
         /\ IsOneToOne(Remote(e2)) /\ runs[e2].resolved /\ InDigitRange(runs[e2].phone) )
       => Cardinality(ConversationsBy(e2)) = 1

C13_Witness ==
  \E e1, e2 \in DOMAIN runs :
    /\ runs[e1].outcome = "error" /\ e1[1] < e2[1]
    /\ Completed(e2) /\ ConversationsBy(e2) # {}
    /\ Remote(e1) = Remote(e2)

\* ------------------------------------------------------------------------
\* C14: the conversation records of one counterparty are inserted in the
\* order in which the transport delivered their events, whatever the mix of
\* message and message_create events and whenever the awaited calls complete.
\* ------------------------------------------------------------------------
C14_ConversationsInDeliveryOrder ==
  \A i, j \in DOMAIN conversations :
    (i < j /\ conversations[i].contactId = conversations[j].contactId)
    => conversations[i].ev[1] <= conversations[j].ev[1]

\* ------------------------------------------------------------------------
\* C15: no step of send() changes the contacts, conversations or
\* opportunities tables; a message dispatched by send(), which happens only
\* when the session was ready, is recorded by the message_create handler and
\* by nothing else: at most one conversation, saliente, and exactly one once
\* that handler has returned without a failure.
\* ------------------------------------------------------------------------
SendStep == \E c \in DOMAIN calls' : calls'[c].op = "send" /\ (c \notin DOMAIN calls \/ calls'[c] # calls[c])

SentRecordedOnce ==
  \A c \in DOMAIN calls :
    (calls[c].op = "send" /\ calls[c].msg # 0)
    => LET m == calls[c].msg
           e == <<m, "message_create">>
       IN /\ calls[c].was[1] # NoClient /\ calls[c].was[2]
          /\ calls[c].result = Success
          /\ Started(e)
          /\ Cardinality(ConversationsOf(m)) <= 1
          /\ \A i \in ConversationsOf(m) :
               conversations[i].ev = e /\ conversations[i].direction = "saliente"
          /\ (Completed(e) /\ runs[e].resolved) => Cardinality(ConversationsOf(m)) = 1

C15_SendRecordedOnceByHandler ==
  /\ []SentRecordedOnce
  /\ [][SendStep => UNCHANGED <<contacts, conversations, opportunities>>]_vars

C15_Witness ==
  \E c \in DOMAIN calls :
    /\ calls[c].op = "send" /\ calls[c].msg # 0
    /\ Started(<<calls[c].msg, "message">>)
    /\ Completed(<<calls[c].msg, "message_create">>)
    /\ Cardinality(ConversationsOf(calls[c].msg)) = 1

\* ------------------------------------------------------------------------
\* C16: send() invoked when there is no session object or the ready flag is
\* false returns {success: false, error: 'WhatsApp not connected'} in that
\* same step: it has not called the transport, no message exists for it, it
\* has not thrown, and the step changed nothing but the record of the call.
\* ------------------------------------------------------------------------
CalledNotReady(call) == call.op = "send" /\ (call.was[1] = NoClient \/ ~call.was[2])

NotConnectedReturned ==
  \A c \in DOMAIN calls :
    CalledNotReady(calls[c])
    => /\ calls[c].pc = "done"
       /\ calls[c].result = NotConnected
       /\ calls[c].asked = 0 /\ calls[c].msg = 0 /\ ~calls[c].threw

C16_SendNotReadyFailsFast ==
  /\ []NotConnectedReturned
  /\ [][(Len(calls') > Len(calls) /\ CalledNotReady(calls'[Len(calls')]))
        => UNCHANGED <<tables, msgs, runs, faults, updates, client, isReady, qrCodeData,
                       clientInfo, sessions, initCalls>>]_vars

C16_Witness ==
  \E c1, c2 \in DOMAIN calls :
    /\ CalledNotReady(calls[c1]) /\ calls[c1].was[1] = NoClient
    /\ CalledNotReady(calls[c2]) /\ calls[c2].was[1] # NoClient

\* ------------------------------------------------------------------------
\* C17: initialize() called while a session object exists changes nothing:
\* no session is constructed, the singleton keeps its value, and the
\* listeners of every session have been registered exactly once.
\* ------------------------------------------------------------------------
InitStep == initCalls' # initCalls

C17_InitializeIdempotent ==
  /\ [](\A s \in DOMAIN sessions : sessions[s].handlers = 1)
  /\ [][(InitStep /\ client # NoClient)
        => UNCHANGED <<tables, msgs, runs, faults, updates, client, isReady, qrCodeData,
                       clientInfo, sessions, calls>>]_vars

C17_Witness == initCalls >= 3 /\ Len(sessions) = 1 /\ client = 1

\* ------------------------------------------------------------------------
\* C18: every session object the transport still runs is the one the
\* singleton holds, so at most one session is live at any time, whatever the
\* order of initialize(), disconnect() (suspended in logout) and disconnected
\* events, those of torn-down sessions included.
\* ------------------------------------------------------------------------
C18_AtMostOneLiveSession ==
  \A s \in DOMAIN sessions : Live(s) => client = s

\* ------------------------------------------------------------------------
\* C19: in the Disconnected state, reached by a disconnected event or by an
\* auth_failure event, initialize() constructs a new session and the
\* singleton holds it.
\* ------------------------------------------------------------------------
Disconnected ==
  \/ client = NoClient /\ \E s \in DOMAIN sessions : sessions[s].status = "closed"
  \/ client # NoClient /\ sessions[client].status = "authFailed"

C19_InitializeAfterDisconnected ==
  [][(InitStep /\ Disconnected)
     => /\ Len(sessions') = Len(sessions) + 1
        /\ client' = Len(sessions')
        /\ sessions'[client'].status = "initializing"]_vars

\* ------------------------------------------------------------------------
\* C20: status() reports a session identity only in the Ready state and a
\* pairing artifact only in the AwaitingPairing state (so neither after a
\* disconnected event, an auth_failure event or disconnect()); ready is never
\* reported with a pairing artifact nor without a session object.
\* ------------------------------------------------------------------------
LifecycleState ==
  IF client = NoClient THEN "Uninitialized or Disconnected"
  ELSE CASE sessions[client].status = "initializing" -> "Initializing"
         [] sessions[client].status = "pairing" -> "AwaitingPairing"
         [] sessions[client].status = "ready" -> "Ready"
         [] OTHER -> "Disconnected"

C20_StatusReflectsState ==
  LET status == getWhatsAppStatus
  IN /\ status.info.phoneNumber # Null => LifecycleState = "Ready"
     /\ status.qrCode # Null => LifecycleState = "AwaitingPairing"
     /\ status.ready => status.qrCode = Null /\ status.initialized

\* ------------------------------------------------------------------------
\* C21: when disconnect() returns on an existing session, status() reports
\* not initialized, not ready, no pairing artifact and no identity; an
\* initialize() called while no session object is held constructs a new
\* session; disconnect() called with no session object changes nothing.
\* ------------------------------------------------------------------------
DisconnectReturns(c) ==
  /\ c \in DOMAIN calls'
  /\ calls'[c].op = "disconnect" /\ calls'[c].pc = "done" /\ ~calls'[c].threw
  /\ c \in DOMAIN calls => calls[c].pc # "done"

Cleared ==
  [ initialized |-> FALSE, ready |-> FALSE, qrCode |-> Null,
    info |-> [phoneNumber |-> Null, name |-> Null] ]

C21_DisconnectResets ==
  [][ /\ \A c \in DOMAIN calls' :
           DisconnectReturns(c)
           => IF calls'[c].target # NoClient
              THEN getWhatsAppStatus' = Cleared
              ELSE UNCHANGED <<tables, rest, msgs, runs, faults, updates, client, isReady,
                               qrCodeData, clientInfo, sessions, initCalls>>
      /\ (InitStep /\ client = NoClient)
         => /\ Len(sessions') = Len(sessions) + 1
            /\ client' = Len(sessions')
            /\ sessions'[client'].status = "initializing" ]_vars

C21_Witness ==
  \E c1, c2 \in DOMAIN calls :
    /\ calls[c1].op = "disconnect" /\ calls[c1].pc = "done" /\ ~calls[c1].threw
    /\ calls[c1].target # NoClient /\ calls[c1].was[2]
    /\ calls[c2].op = "disconnect" /\ calls[c2].target = NoClient
    /\ Len(sessions) >= 2 /\ client = Len(sessions)

\* ------------------------------------------------------------------------
\* C22: normalizePhoneToCanonical is idempotent on digit strings of 10 or
\* more digits: applying it to its own result returns that result.
\* ------------------------------------------------------------------------
IsDigitString(s) == s # Empty /\ s = StripNonDigits(s)

C22_CanonicalIdempotent ==
  (Applied("again") /\ IsDigitString(probe.a) /\ Len(probe.a) >= 10)
  => probe.again = probe.canonical

C22_Witness ==
  /\ Applied("again") /\ probe.a = Phone521
  /\ probe.canonical # Plus \o probe.a /\ probe.again = probe.canonical

\* ------------------------------------------------------------------------
\* C23: for every raw phone with at least 10 digits, the canonical form is
\* one of the variants getPhoneVariants returns for it.
\* ------------------------------------------------------------------------
C23_CanonicalAmongVariants ==
  (Applied("canonical") /\ Applied("variants") /\ DigitCount(probe.a) >= 10)
  => SeqIncludes(probe.variants, probe.canonical)

C23_Witness ==
  /\ Applied("canonical") /\ Applied("variants") /\ probe.a = Foreign12
  /\ probe.variants[Len(probe.variants)] = probe.canonical

\* ------------------------------------------------------------------------
\* C24: for a 10-digit local number d, the spellings d, 52d, +52d, 521d and
\* +521d, with or without non-digit characters interleaved, all canonicalize
\* to +52d, and phonesMatch holds between any two of them.
\* ------------------------------------------------------------------------
Spells(raw, d) == StripNonDigits(raw) \in {d, CC52 \o d, CC521 \o d}

C24_SpellingsAgree ==
  \A d \in LocalNumbers :
    /\ (Applied("canonical") /\ Spells(probe.a, d)) => probe.canonical = Plus \o CC52 \o d
    /\ (Applied("matched") /\ Spells(probe.a, d) /\ Spells(probe.b, d)) => probe.matched

C24_Witness ==
  /\ Applied("canonical") /\ Applied("matched")
  /\ probe.a = Typed(Plus \o CC521 \o OtherLocal) /\ probe.b = OtherLocal
  /\ probe.matched

\* ------------------------------------------------------------------------
\* C25: normalizePhoneToCanonical agrees with the reference on every input:
\* null for null, '' and '-' and for fewer than 10 digits; +52 and the digits
\* for 10 digits; +52 and the last 10 digits for 13 digits beginning 521; +
\* and the digits otherwise.  It returns null exactly for fewer than 10 digits.
\* ------------------------------------------------------------------------
C25_CanonicalAsReference ==
  Applied("canonical")
  => /\ probe.canonical = Canonical(probe.a)
     /\ (probe.canonical = Null) <=> (DigitCount(probe.a) < 10)

C25_Witness ==
  /\ Applied("canonical") /\ probe.a = Foreign13
  /\ probe.canonical = Plus \o Foreign13

\* ------------------------------------------------------------------------
\* C26: for a raw phone with at least 10 digits getPhoneVariants returns a
\* list without duplicates that holds the canonical form, the canonical form
\* without +, +521 and 521 before the last 10 digits, the last 10 digits, and
\* the digits of the raw input with and without +; for fewer than 10 digits
\* it returns the empty list.
\* ------------------------------------------------------------------------
NoDuplicates(arr) == \A i, j \in DOMAIN arr : arr[i] = arr[j] => i = j

C26_VariantsComplete ==
  Applied("variants")
  => IF DigitCount(probe.a) < 10 THEN probe.variants = <<>>
     ELSE LET d == StripNonDigits(probe.a)
              l == LastN(d, 10)
              canonical == normalizePhoneToCanonical(probe.a)
          IN /\ NoDuplicates(probe.variants)
             /\ { canonical, DropN(canonical, 1), Plus \o CC521 \o l, CC521 \o l, l,
                  d, Plus \o d } \subseteq Range(probe.variants)

C26_Witness ==
  /\ Applied("variants") /\ probe.a = Plus \o ForeignUser
  /\ Len(probe.variants) = 7

\* ------------------------------------------------------------------------
\* C27: a conversation is only attached to a contact whose stored phone
\* canonicalizes to the same value as the phone resolved for the event: two
\* phones with different canonical forms (a number of another country and a
\* Mexican number with the same last 10 digits) never reach the same contact
\* through the variant lookup.
\* ------------------------------------------------------------------------
AttachedTo(i) == { j \in DOMAIN contacts : contacts[j].id = conversations[i].contactId }

C27_AttachedByCanonicalPhone ==
  \A i \in DOMAIN conversations : \A j \in AttachedTo(i) :
    Canonical(contacts[j].phone) = Canonical(runs[conversations[i].ev].phone)

\* ------------------------------------------------------------------------
\* C28: once the ready event has been handled, status() reports ready with
\* no pairing artifact until a later disconnected event, auth-failure event,
\* new pairing-challenge event or disconnect() call; the completion of a
\* pairing-challenge handler that started before the ready event does not
\* revert the state.
\* ------------------------------------------------------------------------
ReadyReported == getWhatsAppStatus.ready /\ getWhatsAppStatus.qrCode = Null

\* the step is a disconnected event, an auth-failure event, the emission or
\* the handling of a pairing challenge of a session that has not been ready,
\* or a step of disconnect()
EndsReady ==
  \/ \E s \in DOMAIN sessions :
       \/ sessions'[s].status \in {"closed", "authFailed"} /\ sessions[s].status # sessions'[s].status
       \/ sessions'[s].qrs # sessions[s].qrs /\ sessions[s].status # "ready"
  \/ \E c \in DOMAIN calls' :
       /\ calls'[c].op = "disconnect"
       /\ c \in DOMAIN calls => calls'[c] # calls[c]

C28_ReadyStaysReported ==
  [][ (ReadyReported /\ ~EndsReady) => ReadyReported' ]_vars

\* ------------------------------------------------------------------------
\* C29: consolidation never leaves a dangling reference: after
\* consolidate-duplicates no two contacts have the same canonical phone, the
\* oldest contact of each group of duplicates survives with its phone in
\* canonical form, and no conversation, opportunity or task references a
\* removed contact, also when handlers for the same phone run beside it.
\* ------------------------------------------------------------------------
ContactIds == { contacts[i].id : i \in DOMAIN contacts }

NoDanglingReference ==
  /\ \A i \in DOMAIN conversations : conversations[i].contactId \in ContactIds
  /\ \A i \in DOMAIN opportunities : opportunities[i].contactId \in ContactIds
  /\ \A i \in DOMAIN tasks : tasks[i].contactId \in ContactIds

ConsolidateStep ==
  Len(calls') = Len(calls) + 1 /\ calls'[Len(calls')].op = "consolidate"

SamePhone(i, j) ==
  Canonical(contacts[i].phone) # Null /\ Canonical(contacts[i].phone) = Canonical(contacts[j].phone)

NoDuplicatePhone == \A i, j \in DOMAIN contacts : SamePhone(i, j) => i = j

\* the oldest of every group of duplicates before the step is there after
\* it, with the canonical phone
OldestSurvive ==
  \A i \in DOMAIN contacts :
    ( /\ \E j \in DOMAIN contacts : j # i /\ SamePhone(i, j)
      /\ \A j \in DOMAIN contacts : SamePhone(i, j) => contacts[i].id <= contacts[j].id )
    => \E k \in DOMAIN contacts' :
         contacts'[k].id = contacts[i].id /\ contacts'[k].phone = Canonical(contacts[i].phone)

C30_SavedMediaIsServed ==
  (probe.fn = "media" /\ "get" \in probe.done) => probe.status = <<"200">>

====
